---- MODULE Spec2Model ----
(***************************************************************************)
(* Model of app.py: chat with a GitHub repository through a local vector   *)
(* index (sentence-transformers + FAISS) and an Ollama model.              *)
(*                                                                         *)
(* A Python str is modelled as a sequence of pieces whose concatenation is *)
(* the string.  Strings that the code slices, trims or splits (URLs, the   *)
(* ingested text, chunks, questions, responses) have one character per     *)
(* piece; the fixed prompt sections are single pieces.                     *)
(***************************************************************************)
EXTENDS Integers, Sequences, FiniteSets, TLC

VARIABLES session_state, gh_url, ollama_choice, pulled, last, pure, awaiting

vars == <<session_state, gh_url, ollama_choice, pulled, last, pure, awaiting>>

-----------------------------------------------------------------------------
(* Bounds of the model *)

MaxMsgs == 2
MaxTextLen == 5
MaxC == 3

-----------------------------------------------------------------------------
(* Python str helpers *)

Whitespace == {" ", "\n", "\t"}

Min(S) == CHOOSE x \in S : \A y \in S : x <= y
Max(S) == CHOOSE x \in S : \A y \in S : x >= y

\* a list comprehension, evaluated once into a list
List(f) == f \o <<>>

\* txt[i : j] with 0 <= i, Python slice semantics (clamped at len)
Slice(txt, i, j) == SubSeq(txt, i + 1, IF j < Len(txt) THEN j ELSE Len(txt))

\* str.strip(): drop leading and trailing whitespace
strip(w) ==
    LET keep == {i \in 1..Len(w) : w[i] \notin Whitespace}
    IN  IF keep = {} THEN <<>> ELSE SubSeq(w, Min(keep), Max(keep))

\* str.rstrip(ch): drop every trailing occurrence of character ch
RECURSIVE rstrip(_, _)
rstrip(u, ch) ==
    IF u # <<>> /\ u[Len(u)] = ch THEN rstrip(SubSeq(u, 1, Len(u) - 1), ch) ELSE u

\* the least n such that u has no ch among its last n pieces but one before them
RECURSIVE LastSegmentLen(_, _, _)
LastSegmentLen(u, ch, n) ==
    IF n = Len(u) \/ u[Len(u) - n] = ch THEN n ELSE LastSegmentLen(u, ch, n + 1)

\* str.split(ch)[-1]: what follows the last occurrence of ch
split_last(u, ch) == SubSeq(u, Len(u) - LastSegmentLen(u, ch, 0) + 1, Len(u))

\* str.startswith(p)
startswith(u, p) == Len(u) >= Len(p) /\ SubSeq(u, 1, Len(p)) = p

\* str.replace(old, ""): delete the non-overlapping occurrences of old, left to right
RECURSIVE remove(_, _)
remove(u, old) ==
    IF Len(u) < Len(old) THEN u
    ELSE IF SubSeq(u, 1, Len(old)) = old
         THEN remove(SubSeq(u, Len(old) + 1, Len(u)), old)
         ELSE <<u[1]>> \o remove(Tail(u), old)

\* sep.join(parts)
RECURSIVE join(_, _)
join(sep, parts) ==
    IF parts = <<>> THEN <<>>
    ELSE IF Len(parts) = 1 THEN parts[1]
         ELSE parts[1] \o sep \o join(sep, Tail(parts))

-----------------------------------------------------------------------------
(* Segmenter *)

max_chars == 600

\* range(0, n, step) as the ascending sequence of its values
range(n, step) == [j \in 1..((n + step - 1) \div step) |-> (j - 1) * step]

RECURSIVE SelectNonEmpty(_)
SelectNonEmpty(ws) ==
    IF ws = <<>> THEN <<>>
    ELSE IF ws[1] # <<>> THEN <<ws[1]>> \o SelectNonEmpty(Tail(ws))
         ELSE SelectNonEmpty(Tail(ws))

\* [txt[i:i+c].strip() for i in range(0, len(txt), c) if txt[i:i+c].strip()]
chunk_list(txt, c) ==
    LET starts == range(Len(txt), c)
    IN  SelectNonEmpty(List([j \in 1..Len(starts) |-> strip(Slice(txt, starts[j], starts[j] + c))]))

\* The repository dumps of the model: t followed by blanks fills one window
Pad(t) == [i \in 1..max_chars |-> IF i <= Len(t) THEN t[i] ELSE " "]

TextBlank == <<" ", "\n">>
Text2 == Pad(<<"a">>) \o <<"\n", "b">>
Text6 == Pad(<<"a">>) \o Pad(<<" ", "b">>) \o Pad(<<"c">>) \o Pad(<<"\n">>)
         \o Pad(<<"d">>) \o Pad(<<"e", " ", "c">>) \o <<"f">>

RECURSIVE SelectNonBlank(_)
SelectNonBlank(ws) ==
    IF ws = <<>> THEN <<>>
    ELSE IF strip(ws[1]) # <<>> THEN <<ws[1]>> \o SelectNonBlank(Tail(ws))
         ELSE SelectNonBlank(Tail(ws))

\* chunk with the windows filtered but left untrimmed
chunk_untrimmed(txt, c) ==
    LET starts == range(Len(txt), c)
    IN  SelectNonBlank(List([j \in 1..Len(starts) |-> Slice(txt, starts[j], starts[j] + c)]))

\* chunk with the windows trimmed but the empty ones kept
chunk_keeps_empty(txt, c) ==
    LET starts == range(Len(txt), c)
    IN  List([j \in 1..Len(starts) |-> strip(Slice(txt, starts[j], starts[j] + c))])

\* chunk_list of the long dumps, evaluated once and looked up afterwards
ChunkCache == (Text2 :> chunk_list(Text2, max_chars)) @@ (Text6 :> chunk_list(Text6, max_chars))

chunk(txt, c) ==
    IF c = max_chars /\ Len(txt) > max_chars /\ txt \in DOMAIN ChunkCache
    THEN ChunkCache[txt]
    ELSE chunk_list(txt, c)

-----------------------------------------------------------------------------
(* Outcome of a Python call: a returned value or a raised exception *)

Return(v) == [exc |-> "none", val |-> v]
Raise(e) == [exc |-> e, val |-> <<>>]
\* a call that neither returns nor raises: the caller stays in it
NeverReturns == [exc |-> "never-returns", val |-> <<>>]

\* dict with key set to val
put(d, key, val) == [x \in (DOMAIN d) \cup {key} |-> IF x = key THEN val ELSE d[x]]

\* seq[i] for a Python list: a negative i counts from the end
getitem(seq, i) ==
    IF 0 <= i /\ i < Len(seq) THEN Return(seq[i + 1])
    ELSE IF i < 0 /\ -i <= Len(seq) THEN Return(seq[Len(seq) + i + 1])
         ELSE Raise("IndexError")

-----------------------------------------------------------------------------
(* helpers *)

\* repo_key without the removal of ".git"
repo_key_keeps_git(id, url) == id \o <<"-">> \o split_last(rstrip(url, "/"), "/")

\* url.rstrip("/").split("/")[-1].replace(".git", ""), prefixed by the session id
repo_key(id, url) ==
    id \o <<"-">> \o remove(split_last(rstrip(url, "/"), "/"), <<".", "g", "i", "t">>)

GitHubHttps == <<"h","t","t","p","s",":","/","/","g","i","t","h","u","b",".","c","o","m","/">>
GitHubHttp == <<"h","t","t","p",":","/","/","g","i","t","h","u","b",".","c","o","m","/">>

\* valid_url that accepts any https URL
valid_url_any_host(u) == startswith(u, <<"h", "t", "t", "p">>)

valid_url(u) == startswith(u, GitHubHttps) \/ startswith(u, GitHubHttp)

\* reset_chat that leaves the transcript
reset_chat_keeps(ss) == ss

\* reset_chat that drops the indices too
reset_chat_all(ss) == [ss EXCEPT !.messages = <<>>, !.index_cache = <<>>]

\* st.session_state.messages.clear()
reset_chat(ss) == [ss EXCEPT !.messages = <<>>]

-----------------------------------------------------------------------------
(* Embedding model and vector index *)

Code(ch) ==
    CASE ch = "a" -> 1 [] ch = "b" -> 2 [] ch = "c" -> 3
      [] ch = "d" -> 4 [] ch = "e" -> 5 [] ch = "f" -> 6
      [] OTHER -> 0

RECURSIVE SumCodes(_)
SumCodes(t) == IF t = <<>> THEN 0 ELSE Code(t[1]) + SumCodes(Tail(t))

\* embedder().encode: one fixed-dimension vector per text, a function of the text alone
encode(texts) == List([j \in 1..Len(texts) |-> <<SumCodes(texts[j]), Len(texts[j])>>])

RECURSIVE L2sqr(_, _)
L2sqr(x, y) ==
    IF x = <<>> THEN 0
    ELSE (x[1] - y[1]) * (x[1] - y[1]) + L2sqr(Tail(x), Tail(y))

\* build_index with the vectors added to the index in reverse order
build_index_rows_reversed(long_text, enc) ==
    LET pieces == chunk(long_text, max_chars)
        embeds == encode(pieces)
    IN  IF enc = "raise" THEN Raise("Exception")
        ELSE IF pieces = <<>> THEN Raise("IndexError")
             ELSE Return(<<List([r \in 1..Len(embeds) |-> embeds[Len(embeds) + 1 - r]]),
                           pieces>>)

\* build_index building an index of no rows when there is no chunk
build_index_allows_empty(long_text, enc) ==
    IF enc = "raise" THEN Raise("Exception")
    ELSE Return(<<encode(chunk(long_text, max_chars)), chunk(long_text, max_chars)>>)

\* build_index: the index is the sequence of its rows, row r the vector of pieces[r];
\* encode([]) gives an array of one dimension, so embeds.shape[1] raises IndexError
build_index(long_text, enc) ==
    LET pieces == chunk(long_text, max_chars)
    IN  IF enc = "raise" THEN Raise("Exception")
        ELSE IF pieces = <<>> THEN Raise("IndexError")
             ELSE Return(<<encode(pieces), pieces>>)

\* IndexFlatL2.search(q_vec, k): the labels of the k nearest rows by ascending
\* squared L2 distance, 0-based, padded with -1 when the index has fewer rows
search(index, q_vec, k) ==
    LET n == Len(index)
        dist == List([r \in 1..n |-> L2sqr(index[r], q_vec)])
        rank(r) == Cardinality({r2 \in 1..n : dist[r2] < dist[r] \/ (dist[r2] = dist[r] /\ r2 < r)})
    IN  List([j \in 1..k |-> IF j <= n THEN (CHOOSE r \in 1..n : rank(r) = j - 1) - 1 ELSE -1])

-----------------------------------------------------------------------------
(* Generation model *)

\* @st.cache_resource ollama_model(name): a name pulled before is served from the
\* cache without a pull; a failed pull raises and caches nothing
ollama_model(name, pl, pull) ==
    IF name \in pl THEN [exc |-> "none", pulled |-> pl, calls |-> <<>>]
    ELSE IF pull = "hang"
         THEN [exc |-> NeverReturns.exc, pulled |-> pl,
               calls |-> <<[fn |-> "pull", model |-> name, out |-> "hang"]>>]
    ELSE IF pull = "raise"
         THEN [exc |-> "Exception", pulled |-> pl,
               calls |-> <<[fn |-> "pull", model |-> name, out |-> "raise"]>>]
         ELSE [exc |-> "none", pulled |-> pl \cup {name},
               calls |-> <<[fn |-> "pull", model |-> name, out |-> "ok"]>>]

\* What an external call that yields text does: it raises, or returns the text, or
\* (called without a timeout) waits for a peer that never responds;
\* ollama.generate may also return a mapping that has no "response" field
Raises == [kind |-> "raise", text |-> <<>>]
Hangs == [kind |-> "hang", text |-> <<>>]
NoResponseField == [kind |-> "nokey", text |-> <<>>]
Text(t) == [kind |-> "ok", text |-> t]

\* llama_reply that answers with the empty text when generation fails
llama_reply_swallow(model, prompt, gen) ==
    IF gen.kind = "hang" THEN NeverReturns
    ELSE IF gen.kind = "ok" THEN Return(strip(gen.text)) ELSE Return(<<>>)

\* llama_reply: resp = ollama.generate(...); return resp["response"].strip()
llama_reply(model, prompt, gen) ==
    IF gen.kind = "hang" THEN NeverReturns
    ELSE IF gen.kind = "raise" THEN Raise("Exception")
    ELSE IF gen.kind = "nokey" THEN Raise("KeyError")
         ELSE Return(strip(gen.text))

-----------------------------------------------------------------------------
(* Load / Re-index handler *)

LoadResult(ss, pl, notice, calls, built) ==
    [ss |-> ss, pulled |-> pl, notice |-> notice, calls |-> calls, built |-> built]

\* the run shows no notice: it has not come back from an external call
NoNotice == ""

\* ing: outcome of ingest(gh_url); enc: outcome of encode ("ok" or "raise");
\* pull: outcome of ollama.pull ("ok", "raise" or "hang")
LoadRun(ss, url, choice, pl, ing, enc, pull) ==
    IF ~valid_url(url) THEN LoadResult(ss, pl, "Invalid GitHub URL", <<>>, <<>>)
    ELSE
      LET key == repo_key(ss.id, url)
          cIng == [fn |-> "ingest", model |-> "", out |-> ing.kind]
          cEnc == [fn |-> "encode", model |-> "", out |-> enc]
      IN  IF ing.kind = "hang" THEN LoadResult(ss, pl, NoNotice, <<cIng>>, <<>>)
          ELSE IF ing.kind = "raise" THEN LoadResult(ss, pl, "load-error", <<cIng>>, <<>>)
          ELSE IF ing.text = <<>> THEN LoadResult(ss, pl, "load-error", <<cIng>>, <<>>)
          ELSE
            LET b == build_index(ing.text, enc)
            IN  IF b.exc # "none" THEN LoadResult(ss, pl, "load-error", <<cIng, cEnc>>, <<>>)
                ELSE
                  LET ss1 == [ss EXCEPT !.index_cache = put(@, key, b.val)]
                      m == ollama_model(choice, pl, pull)
                  IN  IF m.exc = NeverReturns.exc
                      THEN LoadResult(ss1, m.pulled, NoNotice,
                                      <<cIng, cEnc>> \o m.calls, b.val)
                      ELSE IF m.exc # "none"
                      THEN LoadResult(ss1, m.pulled, "load-error",
                                      <<cIng, cEnc>> \o m.calls, b.val)
                      ELSE LoadResult(reset_chat(ss1), m.pulled, "Ready to chat!",
                                      <<cIng, cEnc>> \o m.calls, b.val)

-----------------------------------------------------------------------------
(* ask handler *)

TopK == 5

Separator == <<"\n\n---\n\n">>
system_instructions == <<"You are a highly-capable coding assistant. [...]">>
few_shot == <<"Example 1: [...] Example 2: [...]">>

\* the context with the passages joined last rank first
ask_context_reversed(passages) ==
    join(Separator, List([j \in 1..Len(passages) |-> passages[Len(passages) + 1 - j]]))

\* ctx = "\n\n---\n\n".join(chunks[i] for i in I[0])
ask_context(passages) == join(Separator, passages)

\* prompt = "\n\n".join([system_instructions, few_shot, context, question, marker])
ask_prompt(ctx, q) ==
    join(<<"\n\n">>,
         << system_instructions,
            few_shot,
            <<"### Repository Context\n">> \o ctx,
            <<"### User Question\n">> \o q,
            <<"### Your Answer">> >>)

\* except clauses with the KeyError clause after the general one (never taken)
ask_except_general_first(exc) == "Sorry, something went wrong."

\* the except clauses of the ask handler: the notice shown for an exception
ask_except(exc) ==
    IF exc = "KeyError" THEN "Load a repository first!"
    ELSE "Sorry, something went wrong."

\* a message put at the front of the transcript
append_message_front(ss, role, content) ==
    [ss EXCEPT !.messages = <<[role |-> role, content |-> content]>> \o @]

\* st.session_state.messages.append({"role": role, "content": content})
append_message(ss, role, content) ==
    [ss EXCEPT !.messages = Append(@, [role |-> role, content |-> content])]

AskResult(ss, notice, calls, I, retrieved, prompt) ==
    [ss |-> ss, notice |-> notice, calls |-> calls, I |-> I,
     retrieved |-> retrieved, prompt |-> prompt]

\* enc: outcome of encode([q]); gen: outcome of ollama.generate
AskRun(ss, url, choice, q, enc, gen) ==
    LET ss0 == append_message(ss, "user", q)
        key == repo_key(ss.id, url)
        cEnc == [fn |-> "encode", model |-> "", out |-> enc]
        cGen == [fn |-> "generate", model |-> choice, out |-> gen.kind]
    IN  IF key \notin DOMAIN ss.index_cache
        THEN AskResult(ss0, ask_except("KeyError"), <<>>, <<>>, <<>>, <<>>)
        ELSE
          LET idx == ss.index_cache[key][1]
              chunks == ss.index_cache[key][2]
          IN  IF enc = "raise"
              THEN AskResult(ss0, ask_except("Exception"), <<cEnc>>, <<>>, <<>>, <<>>)
              ELSE
                LET q_vec == encode(<<q>>)[1]
                    I == search(idx, q_vec, TopK)
                    got == List([j \in 1..Len(I) |-> getitem(chunks, I[j])])
                IN  IF \E j \in 1..Len(I) : got[j].exc # "none"
                    THEN AskResult(ss0, ask_except("IndexError"), <<cEnc>>, I, <<>>, <<>>)
                    ELSE
                      LET passages == List([j \in 1..Len(I) |-> got[j].val])
                          ctx == ask_context(passages)
                          prompt == ask_prompt(ctx, q)
                          r == llama_reply(choice, prompt, gen)
                      IN  IF r.exc = NeverReturns.exc
                          THEN AskResult(ss0, NoNotice, <<cEnc, cGen>>,
                                         I, passages, prompt)
                          ELSE IF r.exc # "none"
                          THEN AskResult(ss0, ask_except(r.exc), <<cEnc, cGen>>,
                                         I, passages, prompt)
                          ELSE AskResult(
                                 append_message(ss0, "assistant", r.val),
                                 "answer", <<cEnc, cGen>>, I, passages, prompt)

-----------------------------------------------------------------------------
(* Inputs of the model *)

Sessions == {"s1"}
UUIDs == {<<"7", "e">>}

UrlAR == GitHubHttps \o <<"a", "/", "r">>
UrlBRgit == GitHubHttp \o <<"b", "/", "r", ".", "g", "i", "t", "/">>
UrlAQ == GitHubHttps \o <<"a", "/", "q">>
UrlLabR == <<"h","t","t","p","s",":","/","/","g","i","t","l","a","b",".","c","o","m","/","a","/","r">>
URLs == {UrlAR, UrlBRgit, UrlAQ, UrlLabR}

Models == {"mistral", "llama3"}

IngestOutcomes == {Raises, Hangs, Text(<<>>), Text(TextBlank), Text(Text2), Text(Text6)}

Questions == {<<"b">>}
GenerateOutcomes == {Raises, Hangs, NoResponseField, Text(<<"y", " ">>)}
CallOutcomes == {"ok", "raise"}
PullOutcomes == {"ok", "raise", "hang"}

-----------------------------------------------------------------------------
(* State machine: one step per script run of a session *)

\* awaiting: the sessions whose script run is inside an external call that never
\* returns; such a session starts no further run.
\* last: what the latest script run did: its handler, the notice it showed, the
\* external calls it made with their outcomes, the session state it started from
\* (pre), the pair build_index returned (built), and what an ask retrieved and
\* sent. For a load, fetched tells what ingest gave ("none" when it was not called).
\* For an ask, prev tells what the run before it was: "failed_ask" (an ask
\* of the same session in which an external call failed), "clear" (a clear of the
\* same session) or "other".
NoRun == [op |-> "none", s |-> "", notice |-> "", calls |-> <<>>, pre |-> <<>>,
          built |-> <<>>, q |-> <<>>, I |-> <<>>, retrieved |-> <<>>, prompt |-> <<>>,
          prev |-> "other", fetched |-> "none"]

Ran(op, s, notice) == [NoRun EXCEPT !.op = op, !.s = s, !.notice = notice]

Failed(calls) == \E j \in 1..Len(calls) : calls[j].out \in {"raise", "nokey"}
Hung(calls) == \E j \in 1..Len(calls) : calls[j].out = "hang"
AllOk(calls) == \A j \in 1..Len(calls) : calls[j].out = "ok"

PrevRun(s) ==
    IF last.s # s THEN "other"
    ELSE IF last.op = "ask" /\ Failed(last.calls) THEN "failed_ask"
    ELSE IF last.op = "clear" THEN "clear"
    ELSE "other"

\* what ingest gave a load: it raised, or returned an empty, a whitespace-only or
\* another text
Fetched(ing) ==
    IF ing.kind \in {"raise", "hang"} THEN ing.kind
    ELSE IF ing.text = <<>> THEN "empty"
    ELSE IF \E i \in 1..Len(ing.text) : ing.text[i] \notin Whitespace THEN "text"
    ELSE "blank"

Init ==
    /\ session_state = <<>>
    /\ gh_url = <<>>
    /\ ollama_choice = <<>>
    /\ pulled = {}
    /\ last = NoRun
    /\ pure = <<>>
    /\ awaiting = {}

\* first script run of a session (lines 19-22) with the widgets at their defaults
NewSession(s, u) ==
    /\ s \notin DOMAIN session_state
    /\ \A t \in DOMAIN session_state : session_state[t].id # u
    /\ session_state' = session_state @@ (s :> [id |-> u, index_cache |-> <<>>, messages |-> <<>>])
    /\ gh_url' = gh_url @@ (s :> <<>>)
    /\ ollama_choice' = ollama_choice @@ (s :> "mistral")
    /\ last' = Ran("new", s, "")
    /\ UNCHANGED <<pulled, pure, awaiting>>

\* the user edits the "GitHub URL" text input
SetUrl(s, u) ==
    /\ s \in DOMAIN session_state
    /\ s \notin awaiting
    /\ gh_url[s] # u
    /\ gh_url' = [gh_url EXCEPT ![s] = u]
    /\ last' = Ran("url", s, "")
    /\ UNCHANGED <<session_state, ollama_choice, pulled, pure, awaiting>>

\* the user edits the "Ollama model" text input
SetModel(s, m) ==
    /\ s \in DOMAIN session_state
    /\ s \notin awaiting
    /\ ollama_choice[s] # m
    /\ ollama_choice' = [ollama_choice EXCEPT ![s] = m]
    /\ last' = Ran("model", s, "")
    /\ UNCHANGED <<session_state, gh_url, pulled, pure, awaiting>>

\* the "Load / Re-index" button with index_cache one dict shared by the sessions
Load_shared_cache(s, ing, enc, pull) ==
    /\ s \in DOMAIN session_state
    /\ s \notin awaiting
    /\ \E r \in {LoadRun(session_state[s], gh_url[s], ollama_choice[s], pulled, ing, enc, pull)} :
           /\ session_state' = [t \in DOMAIN session_state |->
                                   IF t = s THEN r.ss
                                   ELSE [session_state[t] EXCEPT !.index_cache = r.ss.index_cache]]
           /\ pulled' = r.pulled
           /\ last' = [Ran("load", s, r.notice) EXCEPT !.calls = r.calls,
                          !.pre = session_state[s], !.built = r.built,
                          !.fetched = IF valid_url(gh_url[s]) THEN Fetched(ing) ELSE "none"]
           /\ awaiting' = IF Hung(r.calls) THEN awaiting \cup {s} ELSE awaiting
    /\ UNCHANGED <<gh_url, ollama_choice, pure>>

\* the "Load / Re-index" button
Load(s, ing, enc, pull) ==
    /\ s \in DOMAIN session_state
    /\ s \notin awaiting
    /\ \E r \in {LoadRun(session_state[s], gh_url[s], ollama_choice[s], pulled, ing, enc, pull)} :
           /\ session_state' = [session_state EXCEPT ![s] = r.ss]
           /\ pulled' = r.pulled
           /\ last' = [Ran("load", s, r.notice) EXCEPT !.calls = r.calls,
                          !.pre = session_state[s], !.built = r.built,
                          !.fetched = IF valid_url(gh_url[s]) THEN Fetched(ing) ELSE "none"]
           /\ awaiting' = IF Hung(r.calls) THEN awaiting \cup {s} ELSE awaiting
    /\ UNCHANGED <<gh_url, ollama_choice, pure>>

\* the "Clear" button: on_click = reset_chat
Clear(s) ==
    /\ s \in DOMAIN session_state
    /\ s \notin awaiting
    /\ session_state' = [session_state EXCEPT ![s] = reset_chat(@)]
    /\ last' = [Ran("clear", s, "") EXCEPT !.pre = session_state[s]]
    /\ UNCHANGED <<gh_url, ollama_choice, pulled, pure, awaiting>>

\* a question entered in the chat input
Ask(s, q, enc, gen) ==
    /\ s \in DOMAIN session_state
    /\ s \notin awaiting
    /\ Len(session_state[s].messages) < MaxMsgs
    /\ \E r \in {AskRun(session_state[s], gh_url[s], ollama_choice[s], q, enc, gen)} :
           /\ session_state' = [session_state EXCEPT ![s] = r.ss]
           /\ last' = [Ran("ask", s, r.notice) EXCEPT !.calls = r.calls,
                          !.pre = session_state[s], !.q = q, !.I = r.I,
                          !.retrieved = r.retrieved, !.prompt = r.prompt,
                          !.prev = PrevRun(s)]
           /\ awaiting' = IF Hung(r.calls) THEN awaiting \cup {s} ELSE awaiting
    /\ UNCHANGED <<gh_url, ollama_choice, pulled, pure>>

Next ==
    \/ \E s \in Sessions, u \in UUIDs : NewSession(s, u)
    \/ \E s \in Sessions, u \in URLs : SetUrl(s, u)
    \/ \E s \in Sessions, m \in Models : SetModel(s, m)
    \/ \E s \in Sessions, ing \in IngestOutcomes, enc \in CallOutcomes, pull \in PullOutcomes :
          Load(s, ing, enc, pull)
    \/ \E s \in Sessions : Clear(s)
    \/ \E s \in Sessions, q \in Questions, enc \in CallOutcomes, gen \in GenerateOutcomes :
          Ask(s, q, enc, gen)

Spec == Init /\ [][Next]_vars

-----------------------------------------------------------------------------
(* chunk as a pure function: inputs drawn from bounded sets, then applied *)

ChunkAlphabet == {"a", "b", " ", "\n"}
ExampleText == <<"a", "b", "c", "d", "e", "f", "g", "h", "i", "j">>

ChunkInputs ==
    {<<t, c>> : t \in UNION {[1..n -> ChunkAlphabet] : n \in 0..MaxTextLen}, c \in 1..MaxC}
      \cup {<<ExampleText, 4>>}

InitChunk ==
    /\ session_state = <<>>
    /\ gh_url = <<>>
    /\ ollama_choice = <<>>
    /\ pulled = {}
    /\ last = NoRun
    /\ awaiting = {}
    /\ \E in \in ChunkInputs : pure = [txt |-> in[1], c |-> in[2], done |-> FALSE, out |-> <<>>]

ApplyChunk ==
    /\ ~pure.done
    /\ pure' = [pure EXCEPT !.done = TRUE, !.out = chunk(pure.txt, pure.c)]
    /\ UNCHANGED <<session_state, gh_url, ollama_choice, pulled, last, awaiting>>

NextChunk == ApplyChunk

SpecChunk == InitChunk /\ [][NextChunk]_vars

-----------------------------------------------------------------------------
(* Two browser sessions of the one server process: each has its own           *)
(* st.session_state and its own script thread, the st.cache_resource cache    *)
(* (pulled) is shared.  Their script runs interleave in any order.            *)

MaxMsgs2 == 2

Sessions2 == {"s1", "s2"}
UUIDs2 == {<<"7", "e">>, <<"7", "f">>}
URLs2 == {UrlAR, UrlAQ}
IngestOutcomes2 == {Raises, Text(Text2)}
GenerateOutcomes2 == {Hangs, Text(<<"y", " ">>)}

NextSessions ==
    \/ \E s \in Sessions2, u \in UUIDs2 : NewSession(s, u)
    \/ \E s \in Sessions2, u \in URLs2 : SetUrl(s, u)
    \/ \E s \in Sessions2, ing \in IngestOutcomes2 : Load(s, ing, "ok", "ok")
    \/ \E s \in Sessions2 : Clear(s)
    \/ \E s \in Sessions2, q \in Questions, gen \in GenerateOutcomes2 :
          /\ s \in DOMAIN session_state
          /\ Len(session_state[s].messages) < MaxMsgs2
          /\ Ask(s, q, "ok", gen)

SpecSessions == Init /\ [][NextSessions]_vars

-----------------------------------------------------------------------------
(* Properties of chunk *)

\* the j-th consecutive window of c pieces of txt, as the set of its positions
WindowPositions(txt, c, j) == {i \in 1..Len(txt) : (j - 1) * c < i /\ i <= j * c}

NonBlankWindows(txt, c) ==
    {j \in 1..Len(txt) : \E i \in WindowPositions(txt, c, j) : txt[i] \notin Whitespace}

\* t is the window at positions P of txt without its leading and trailing whitespace
IsTrimmedWindow(t, txt, P) ==
    \E lo \in P : \E hi \in P :
       /\ lo <= hi
       /\ txt[lo] \notin Whitespace /\ txt[hi] \notin Whitespace
       /\ \A i \in P : (i < lo \/ i > hi) => txt[i] \in Whitespace
       /\ t = [i \in 1..(hi - lo + 1) |-> txt[lo + i - 1]]

\* C10: chunk(T, c) is, in order, the trimmed consecutive non-overlapping windows of
\* c characters of T, the windows that are blank after trimming dropped; so no chunk
\* exceeds c characters, none is empty or whitespace-only, and nothing is reordered;
\* "abcdefghij" with c = 4 gives ["abcd", "efgh", "ij"].
C10_ChunkIsTrimmedWindows ==
    pure.done =>
      LET out == pure.out
          nb == NonBlankWindows(pure.txt, pure.c)
      IN  /\ Len(out) = Cardinality(nb)
          /\ \A k \in 1..Len(out) :
                /\ Len(out[k]) >= 1 /\ Len(out[k]) <= pure.c
                /\ \E i \in 1..Len(out[k]) : out[k][i] \notin Whitespace
                /\ \E j \in nb :
                      /\ Cardinality({j2 \in nb : j2 < j}) = k - 1
                      /\ IsTrimmedWindow(out[k], pure.txt, WindowPositions(pure.txt, pure.c, j))
          /\ (pure.txt = ExampleText /\ pure.c = 4 =>
                out = << <<"a", "b", "c", "d">>, <<"e", "f", "g", "h">>, <<"i", "j">> >>)

\* a text with a blank window between two windows that need trimming has been chunked
C10_Witness ==
    /\ pure.done
    /\ pure.txt = <<" ", "a", " ", " ", "b">>
    /\ pure.c = 2
    /\ pure.out = << <<"a">>, <<"b">> >>

\* C11 as claimed: the empty string gives no chunk, and every other string shorter
\* than max_chars gives exactly one chunk, the trimmed input.
C11_ShortTextOneChunk ==
    pure.done =>
      /\ (pure.txt = <<>> => pure.out = <<>>)
      /\ (pure.txt # <<>> /\ Len(pure.txt) < pure.c) =>
            /\ Len(pure.out) = 1
            /\ IsTrimmedWindow(pure.out[1], pure.txt, 1..Len(pure.txt))

HasText(txt) == \E i \in 1..Len(txt) : txt[i] \notin Whitespace

\* C11 amended: the empty string gives no chunk; a string shorter than max_chars
\* gives exactly one chunk, the trimmed input, when it has a character that is not
\* whitespace, and no chunk when it is whitespace only.
C11_ShortTextOneChunkUnlessBlank ==
    pure.done =>
      /\ (pure.txt = <<>> => pure.out = <<>>)
      /\ (Len(pure.txt) < pure.c /\ HasText(pure.txt)) =>
            /\ Len(pure.out) = 1
            /\ IsTrimmedWindow(pure.out[1], pure.txt, 1..Len(pure.txt))
      /\ (Len(pure.txt) < pure.c /\ ~HasText(pure.txt)) => pure.out = <<>>

\* a short text with whitespace around its content has been chunked into one chunk
C11_Witness ==
    /\ pure.done
    /\ pure.txt = <<" ", "a">>
    /\ pure.c = 3
    /\ pure.out = << <<"a">> >>

-----------------------------------------------------------------------------
(* Properties of the handlers *)

\* what the inputs of the model are, independently of the helpers that parse them
GitHubURLs == {UrlAR, UrlBRgit, UrlAQ}
RepoNameOf == (UrlAR :> "r") @@ (UrlBRgit :> "r") @@ (UrlAQ :> "q") @@ (UrlLabR :> "r")

Registry(s) == session_state[s].index_cache
Transcript(s) == session_state[s].messages
SelectedKey(s) == repo_key(session_state[s].id, gh_url[s])
UserMessage(q) == [role |-> "user", content |-> q]
IsRole(m, role) == m.role = role

\* C1: a load that fails at any step (empty fetch, embedding or index-build failure,
\* failure to confirm the generation model) leaves the registry as it was before.
C1_FailedLoadKeepsRegistry ==
    (last.op = "load" /\ last.notice # "Ready to chat!")
       => Registry(last.s) = last.pre.index_cache

\* C2: the passages an ask places in the prompt are min(k, N) in number, N the
\* number of chunks of the repository, and no chunk appears twice among them.
C2_RetrievedMinKNDistinct ==
    (last.op = "ask" /\ last.prompt # <<>>) =>
       LET chunks == last.pre.index_cache[SelectedKey(last.s)][2]
           n == Len(chunks)
       IN  /\ Len(last.retrieved) = (IF n < TopK THEN n ELSE TopK)
           /\ \A i \in 1..Len(last.retrieved) : \A j \in 1..Len(last.retrieved) :
                 i # j => last.retrieved[i] # last.retrieved[j]

\* C12: the rows an ask's index query returns are rows of the index in strictly
\* increasing order of (squared distance to the query vector, row), and passage j
\* of the prompt is the chunk of the j-th returned row.
C12_RowsOrderedByDistanceThenRow ==
    (last.op = "ask" /\ last.prompt # <<>>) =>
       LET entry == last.pre.index_cache[SelectedKey(last.s)]
           n == Len(entry[2])
           q_vec == encode(<<last.q>>)[1]
           d(row) == L2sqr(entry[1][row + 1], q_vec)
       IN  /\ \A j \in 1..Len(last.I) : last.I[j] \in 0..(n - 1)
           /\ \A j \in 1..(Len(last.I) - 1) :
                 \/ d(last.I[j]) < d(last.I[j + 1])
                 \/ d(last.I[j]) = d(last.I[j + 1]) /\ last.I[j] < last.I[j + 1]
           /\ Len(last.retrieved) = Len(last.I)
           /\ \A j \in 1..Len(last.I) : last.retrieved[j] = entry[2][last.I[j] + 1]

\* the passages up to rank j, each followed by the separator when another follows
RECURSIVE ContextUpTo(_, _)
ContextUpTo(ps, j) ==
    IF j = 0 THEN <<>>
    ELSE IF j = 1 THEN ps[1]
         ELSE ContextUpTo(ps, j - 1) \o <<"\n\n---\n\n">> \o ps[j]

\* C15: the prompt of an ask is system instructions, worked examples, repository
\* context, user question and answer marker in that order, and the context is the
\* passages of the returned labels in rank order, separated by the separator, the
\* passage of the nearest row first.
C15_PromptSectionsInOrder ==
    (last.op = "ask" /\ last.prompt # <<>>) =>
       LET entry == last.pre.index_cache[SelectedKey(last.s)]
           n == Len(entry[2])
           q_vec == encode(<<last.q>>)[1]
       IN  /\ last.prompt =
                 <<"You are a highly-capable coding assistant. [...]", "\n\n",
                   "Example 1: [...] Example 2: [...]", "\n\n",
                   "### Repository Context\n">>
                 \o ContextUpTo(last.retrieved, Len(last.retrieved))
                 \o <<"\n\n", "### User Question\n">> \o last.q
                 \o <<"\n\n", "### Your Answer">>
           /\ Len(last.retrieved) = Len(last.I)
           /\ \A j \in 1..Len(last.I) :
                 last.retrieved[j] =
                    entry[2][IF last.I[j] < 0 THEN n + 1 + last.I[j] ELSE last.I[j] + 1]
           /\ \A r \in 1..n :
                 L2sqr(entry[1][last.I[1] + 1], q_vec) <= L2sqr(entry[1][r], q_vec)

\* an ask has sent a prompt whose context holds two different passages
C15_Witness ==
    /\ last.op = "ask"
    /\ last.notice = "answer"
    /\ Len(last.retrieved) >= 2
    /\ last.retrieved[1] # last.retrieved[2]
    /\ last.prompt # <<>>

\* C16: every registry entry is a pair whose index has as many rows as its chunk
\* list has chunks, row r being the vector of the chunk at position r, and the entry
\* a load writes is the pair its one build returned.
C16_EntryRowsMatchChunks ==
    /\ \A s \in DOMAIN session_state : \A k \in DOMAIN Registry(s) :
          LET e == Registry(s)[k]
          IN  /\ Len(e[1]) = Len(e[2])
              /\ \A r \in 1..Len(e[2]) : e[1][r] = <<SumCodes(e[2][r]), Len(e[2][r])>>
    /\ (last.op = "load" /\ last.built # <<>>) =>
          Registry(last.s)[SelectedKey(last.s)] = last.built

\* a load has registered an index of six rows over six chunks
C16_Witness ==
    /\ last.op = "load"
    /\ last.built # <<>>
    /\ Len(last.built[2]) = 6
    /\ SelectedKey(last.s) \in DOMAIN Registry(last.s)

\* C17: no registry entry has an index of zero rows, and a load whose fetched text
\* is not empty but whitespace only fails, builds nothing and leaves the registry as
\* it was.
C17_NoEmptyIndex ==
    /\ \A s \in DOMAIN session_state : \A k \in DOMAIN Registry(s) :
          Len(Registry(s)[k][1]) > 0 /\ Len(Registry(s)[k][2]) > 0
    /\ (last.op = "load" /\ last.fetched = "blank") =>
          /\ last.notice = "load-error"
          /\ last.built = <<>>
          /\ Registry(last.s) = last.pre.index_cache

\* a load has fetched a whitespace-only text for a repository that has no entry
C17_Witness ==
    /\ last.op = "load"
    /\ last.fetched = "blank"
    /\ \A j \in 1..Len(last.calls) : last.calls[j].out = "ok"
    /\ SelectedKey(last.s) \notin DOMAIN Registry(last.s)

\* C18: every assistant message of a transcript comes immediately after a user
\* message, and an ask leaves the transcript it found followed by its user message,
\* followed by one assistant message exactly when the ask produced an answer.
C18_TranscriptChronological ==
    /\ \A s \in DOMAIN session_state : \A i \in 1..Len(Transcript(s)) :
          Transcript(s)[i].role = "assistant" =>
             i > 1 /\ Transcript(s)[i - 1].role = "user"
    /\ last.op = "ask" =>
          LET t == Transcript(last.s)
              n == Len(last.pre.messages)
          IN  /\ Len(t) = n + (IF last.notice = "answer" THEN 2 ELSE 1)
              /\ SubSeq(t, 1, n) = last.pre.messages
              /\ t[n + 1] = [role |-> "user", content |-> last.q]
              /\ last.notice = "answer" => t[n + 2].role = "assistant"

\* an ask has been answered in a transcript that already held a message
C18_Witness ==
    /\ last.op = "ask"
    /\ last.notice = "answer"
    /\ Len(last.pre.messages) = 1
    /\ Len(Transcript(last.s)) = 3

\* C19: a load that succeeds (its index is registered and its model confirmed)
\* leaves an empty transcript; a load that fails at any step or rejects the URL
\* leaves the transcript as it was.
C19_LoadClearsTranscriptOnlyOnSuccess ==
    last.op = "load" =>
       IF last.notice = "Ready to chat!"
       THEN /\ Transcript(last.s) = <<>>
            /\ SelectedKey(last.s) \in DOMAIN Registry(last.s)
            /\ ollama_choice[last.s] \in pulled
       ELSE Transcript(last.s) = last.pre.messages

\* a load has succeeded in a session whose transcript held messages
C19_Witness ==
    /\ last.op = "load"
    /\ last.notice = "Ready to chat!"
    /\ Len(last.pre.messages) = 2
    /\ Transcript(last.s) = <<>>

\* a load has failed in a session whose transcript held messages
C19_WitnessFailed ==
    /\ last.op = "load"
    /\ last.notice = "load-error"
    /\ Len(Transcript(last.s)) = 2

\* C14: every load and every ask completes: no session stays inside an external
\* call whose peer never responds, and each load and ask ends with a notice or an
\* answer.
C14_EveryRunCompletes ==
    /\ awaiting = {}
    /\ last.op \in {"load", "ask"} => last.notice # NoNotice

\* C13: a step of one session leaves the registry and the transcript of every
\* other session as they were, even while another session is inside a call that
\* never returns; every key of a session's registry begins with that session's id,
\* so the registries of two sessions have no key in common.
C13_SessionsIndependent ==
    /\ [](\A s \in DOMAIN session_state : \A k \in DOMAIN Registry(s) :
            startswith(k, session_state[s].id \o <<"-">>))
    /\ [](\A s \in DOMAIN session_state : \A t \in DOMAIN session_state :
            s # t => (DOMAIN Registry(s)) \cap (DOMAIN Registry(t)) = {})
    /\ [][\A t \in DOMAIN session_state :
            t # last'.s => (t \in DOMAIN session_state' /\ session_state'[t] = session_state[t])]_vars

\* two sessions have each loaded the repository named r and one of them then
\* cleared its transcript, the other keeping its own
C13_Witness ==
    /\ DOMAIN session_state = {"s1", "s2"}
    /\ gh_url["s1"] = UrlAR /\ gh_url["s2"] = UrlAR
    /\ SelectedKey("s1") \in DOMAIN Registry("s1")
    /\ SelectedKey("s2") \in DOMAIN Registry("s2")
    /\ SelectedKey("s1") # SelectedKey("s2")
    /\ last.op = "clear" /\ last.s = "s2" /\ last.pre.messages # <<>>
    /\ Transcript("s1") # <<>>

\* C3: generate is invoked only with a model name that a successful pull confirmed
\* earlier, and a failed confirmation is an error of the load, tried once.
C3_GenerateOnlyConfirmedModel ==
    /\ \A j \in 1..Len(last.calls) :
          last.calls[j].fn = "generate" => last.calls[j].model \in pulled
    /\ \A j \in 1..Len(last.calls) :
          (last.calls[j].fn = "pull" /\ last.calls[j].out = "raise") =>
             /\ last.op = "load" /\ last.notice = "load-error"
             /\ Cardinality({i \in 1..Len(last.calls) : last.calls[i].fn = "pull"}) = 1

\* C4: an ask while the registry has no entry for the selected repository key shows
\* the "load a repository first" notice and the transcript grows by exactly the
\* user message.
C4_AskNotIndexed ==
    (last.op = "ask" /\ SelectedKey(last.s) \notin DOMAIN last.pre.index_cache) =>
       /\ last.notice = "Load a repository first!"
       /\ Transcript(last.s) = Append(last.pre.messages, UserMessage(last.q))
       /\ last.calls = <<>>

\* such an ask happened while another repository of the session was indexed
C4_Witness ==
    /\ last.op = "ask"
    /\ SelectedKey(last.s) \notin DOMAIN last.pre.index_cache
    /\ last.pre.index_cache # <<>>
    /\ last.pre.messages # <<>>

\* C5: when an ask on an indexed repository fails in embedding or generation, the
\* user message is kept, no assistant message is appended, the registry is
\* unchanged, and the next ask of the session is processed normally.
C5_FailedAskKeepsUserMessage ==
    /\ (last.op = "ask" /\ Failed(last.calls)) =>
          /\ SelectedKey(last.s) \in DOMAIN last.pre.index_cache
          /\ Transcript(last.s) = Append(last.pre.messages, UserMessage(last.q))
          /\ Registry(last.s) = last.pre.index_cache
    /\ (last.op = "ask" /\ last.prev = "failed_ask" /\ AllOk(last.calls)) =>
          /\ last.notice = "answer"
          /\ Len(last.calls) = 2
          /\ Len(Transcript(last.s)) = Len(last.pre.messages) + 2
          /\ SubSeq(Transcript(last.s), 1, Len(last.pre.messages) + 1)
                = Append(last.pre.messages, UserMessage(last.q))
          /\ IsRole(Transcript(last.s)[Len(Transcript(last.s))], "assistant")

\* an ask was answered right after an ask whose generation failed
C5_Witness ==
    /\ last.op = "ask" /\ last.prev = "failed_ask" /\ last.notice = "answer"
    /\ Len(last.pre.messages) >= 1
    /\ IsRole(last.pre.messages[Len(last.pre.messages)], "user")

\* C6: an ask shows the "load a repository first" notice if and only if the registry
\* has no entry for the selected key; every other failure of an ask shows the
\* generic notice.
C6_LoadFirstIffNotIndexed ==
    last.op = "ask" =>
       /\ (last.notice = "Load a repository first!")
             <=> (SelectedKey(last.s) \notin DOMAIN last.pre.index_cache)
       /\ Failed(last.calls) => last.notice = "Sorry, something went wrong."

\* C7: clear empties the transcript and leaves every registry entry as it was, and
\* an ask after a clear on a loaded repository is answered from its index.
C7_ClearKeepsRegistry ==
    /\ last.op = "clear" =>
          /\ Transcript(last.s) = <<>>
          /\ Registry(last.s) = last.pre.index_cache
    /\ (last.op = "ask" /\ last.prev = "clear" /\ AllOk(last.calls)
          /\ SelectedKey(last.s) \in DOMAIN last.pre.index_cache) =>
          /\ last.notice = "answer"
          /\ \A j \in 1..Len(last.retrieved) :
                \E r \in 1..Len(last.pre.index_cache[SelectedKey(last.s)][2]) :
                   last.retrieved[j] = last.pre.index_cache[SelectedKey(last.s)][2][r]

\* a clear of a non-empty transcript with a repository loaded
C7_Witness ==
    /\ last.op = "clear"
    /\ last.pre.messages # <<>>
    /\ last.pre.index_cache # <<>>

\* C8: two successful loads of URLs with the same repository name use the same key,
\* and after the second a lookup of that key returns the second build's pair.
C8_LastLoadWins ==
    (last.op = "load" /\ last.notice = "Ready to chat!") =>
       \A u \in URLs :
          RepoNameOf[u] = RepoNameOf[gh_url[last.s]] =>
             /\ repo_key(session_state[last.s].id, u) \in DOMAIN Registry(last.s)
             /\ Registry(last.s)[repo_key(session_state[last.s].id, u)] = last.built

\* a successful load replaced a different pair registered under the same key
C8_Witness ==
    /\ last.op = "load" /\ last.notice = "Ready to chat!"
    /\ SelectedKey(last.s) \in DOMAIN last.pre.index_cache
    /\ last.pre.index_cache[SelectedKey(last.s)] # Registry(last.s)[SelectedKey(last.s)]
    /\ gh_url[last.s] = UrlBRgit

\* C9: a load with a URL that is not a GitHub URL is rejected before any fetch: no
\* external call is made and the registry and the transcript are unchanged.
C9_InvalidUrlRejected ==
    (last.op = "load" /\ gh_url[last.s] \notin GitHubURLs) =>
       /\ last.notice = "Invalid GitHub URL"
       /\ last.calls = <<>>
       /\ session_state[last.s] = last.pre

\* a load of a URL of another host was rejected in a session with a loaded
\* repository and a non-empty transcript
C9_Witness ==
    /\ last.op = "load" /\ gh_url[last.s] = UrlLabR
    /\ last.pre.index_cache # <<>>
    /\ last.pre.messages # <<>>

====
